---------------------------- MODULE Spec2Model ----------------------------
(***************************************************************************)
(* Model of the two quiz programs of tcp-ip-packet-drills:                 *)
(*   src/packet_quiz.py     (class PacketQuiz)                             *)
(*   src/tcp_flags_quiz.py  (class TCPFlagsQuiz)                           *)
(*                                                                         *)
(* Python strings are TLA+ strings; they are taken apart with Len, SubSeq  *)
(* and \o.  A Python call either returns a value or raises: a call is      *)
(* modelled by a record [returned |-> value, raised |-> exception name].   *)
(***************************************************************************)
EXTENDS Integers, Sequences, FiniteSets, TLC

VARIABLES
    quiz,              \* which program runs: "packet" or "flags"
    questions,         \* self.questions: the bank, as the sequence of its ids
    num_questions,     \* self.num_questions
    start_question_id, \* self.start_question_id: <<>> is None, <<k>> is k
    packet_data,       \* self.packet_data: the parsed packet corpus
    quiz_questions,    \* the questions selected for the session, as ids
    i,                 \* questions of the session finished so far
    score,             \* self.score
    user_answer,       \* the text read from the user (check_answer's first
                       \* argument in a matcher run)
    user_option,       \* the text handed to check_answer by run_quiz
    correct_answer,    \* check_answer's second argument
    is_correct,        \* what check_answer returned
    report,            \* the final score line: <<>>, or <<[correct, total]>>
    out,               \* what run_quiz printed and read so far, in order
    hex_string,        \* format_hex_dump's first argument
    offset,            \* its offset argument: <<>> is None, <<k>> is k
    num_bytes,         \* its num_bytes argument: <<>> is None, <<k>> is k
    dump_i,            \* its outer loop variable i, the first digit of a line
    formatted_dump,    \* the text format_hex_dump returned
    raised,            \* the exception that escaped, or NoException
    pc                 \* position of the run

\* The variables of a format_hex_dump call.
dumpVars == <<hex_string, offset, num_bytes, dump_i, formatted_dump>>

vars == <<quiz, questions, num_questions, start_question_id, packet_data,
          quiz_questions,
          i, score, user_answer, user_option, correct_answer, is_correct,
          report, out, dumpVars, raised, pc>>

None == <<>>

NoException == "None"

PACKET == "packet"

FLAGS == "flags"

(***************************************************************************)
(* Python str primitives                                                   *)
(***************************************************************************)
ascii_uppercase == "ABCDEFGHIJKLMNOPQRSTUVWXYZ"

ascii_lowercase == "abcdefghijklmnopqrstuvwxyz"

\* str.strip() with no argument removes these (the ASCII whitespace).
whitespace == " \t\n\r"

hexdigits == "0123456789abcdef"

CharAt(s, k) == SubSeq(s, k, k)

Chars(s) == {CharAt(s, k) : k \in 1..Len(s)}

\* str.find for one character, 1-based; 0 when absent.
IndexOf(ch, s) ==
    IF \E k \in 1..Len(s) : CharAt(s, k) = ch
    THEN CHOOSE k \in 1..Len(s) :
            CharAt(s, k) = ch /\ \A j \in 1..(k - 1) : CharAt(s, j) # ch
    ELSE 0

\* The case mappings of the ASCII letters, as tables.
LowerTable ==
    [ch \in Chars(ascii_uppercase) |->
        CharAt(ascii_lowercase, IndexOf(ch, ascii_uppercase))]

UpperTable ==
    [ch \in Chars(ascii_lowercase) |->
        CharAt(ascii_uppercase, IndexOf(ch, ascii_lowercase))]

WhitespaceChars == Chars(whitespace)

LowerChar(ch) == IF ch \in DOMAIN LowerTable THEN LowerTable[ch] ELSE ch

UpperChar(ch) == IF ch \in DOMAIN UpperTable THEN UpperTable[ch] ELSE ch

RECURSIVE lower(_)
lower(s) ==
    IF s = "" THEN ""
    ELSE LowerChar(CharAt(s, 1)) \o lower(SubSeq(s, 2, Len(s)))

RECURSIVE upper(_)
upper(s) ==
    IF s = "" THEN ""
    ELSE UpperChar(CharAt(s, 1)) \o upper(SubSeq(s, 2, Len(s)))

RECURSIVE lstrip(_)
lstrip(s) ==
    IF s # "" /\ CharAt(s, 1) \in WhitespaceChars
    THEN lstrip(SubSeq(s, 2, Len(s)))
    ELSE s

RECURSIVE rstrip(_)
rstrip(s) ==
    IF s # "" /\ CharAt(s, Len(s)) \in WhitespaceChars
    THEN rstrip(SubSeq(s, 1, Len(s) - 1))
    ELSE s

strip(s) == lstrip(rstrip(s))

startswith(s, prefix) ==
    Len(s) >= Len(prefix) /\ SubSeq(s, 1, Len(prefix)) = prefix

(***************************************************************************)
(* int(s, 16) for a string that starts with "0x".  After the prefix come   *)
(* hex digits, with single underscores allowed before a digit; anything    *)
(* else is a ValueError.  Python integers are unbounded: the value is the  *)
(* sequence of its hex digits, most significant first, without leading     *)
(* zeros (zero is the empty sequence).                                     *)
(***************************************************************************)
ValueError == <<-1>>

\* The value of each hex digit character.
DigitTable == [ch \in Chars(hexdigits) |-> IndexOf(ch, hexdigits) - 1]

IsHexDigit(ch) == LowerChar(ch) \in DOMAIN DigitTable

DigitValue(ch) == DigitTable[LowerChar(ch)]

WellFormedDigits(body) ==
    /\ body # ""
    /\ \A k \in 1..Len(body) : IsHexDigit(CharAt(body, k)) \/ CharAt(body, k) = "_"
    /\ CharAt(body, Len(body)) # "_"
    /\ \A k \in 1..(Len(body) - 1) :
          CharAt(body, k) = "_" => CharAt(body, k + 1) # "_"

RECURSIVE DigitsOf(_)
DigitsOf(body) ==
    IF body = "" THEN <<>>
    ELSE IF CharAt(body, 1) = "_" THEN DigitsOf(SubSeq(body, 2, Len(body)))
    ELSE <<DigitValue(CharAt(body, 1))>> \o DigitsOf(SubSeq(body, 2, Len(body)))

RECURSIVE DropLeadingZeros(_)
DropLeadingZeros(digits) ==
    IF digits # <<>> /\ Head(digits) = 0 THEN DropLeadingZeros(Tail(digits))
    ELSE digits

\* A plausible slip: the digits are compared as written, "0x02" is not "0x2".
IntBase16AsWritten(s) ==
    LET body == SubSeq(s, 3, Len(s))
    IN  IF WellFormedDigits(body) THEN DigitsOf(body) ELSE ValueError

IntBase16(s) ==
    LET body == SubSeq(s, 3, Len(s))
    IN  IF WellFormedDigits(body)
        THEN DropLeadingZeros(DigitsOf(body))
        ELSE ValueError

(***************************************************************************)
(* check_answer, the part both programs share line for line                *)
(***************************************************************************)
Return(v) == [returned |-> v, raised |-> NoException]

Raise(e) == [returned |-> FALSE, raised |-> e]

\* A plausible slip: only the whitespace is removed, the case is kept.
NormalizeKeepCase(s) == strip(s)

\* user_answer.lower().strip()
Normalize(s) == strip(lower(s))

\* A plausible slip: only 't' is expanded.
ExpandBooleanOnlyT(u) == IF u = "t" THEN "true" ELSE u

\* if user_answer == 't': 'true'  elif user_answer == 'f': 'false'
ExpandBoolean(u) ==
    IF u = "t" THEN "true" ELSE IF u = "f" THEN "false" ELSE u

\* The guard of the true/false block.
BooleanApplies(u, c) ==
    c \in {"true", "false"} /\ u \in {"true", "false", "t", "f"}

\* The guard of the hex block.
HexApplies(u, c) == startswith(c, "0x") /\ startswith(u, "0x")

\* A plausible slip: no except clause, the ValueError escapes.
HexCompareUncaught(u, c) ==
    IF IntBase16(c) = ValueError \/ IntBase16(u) = ValueError
    THEN Raise("ValueError")
    ELSE Return(IntBase16(c) = IntBase16(u))

\* A plausible slip: two hex numbers are taken as equal without comparing
\* their values.
HexCompareWellFormedOnly(u, c) ==
    Return(IntBase16(c) # ValueError /\ IntBase16(u) # ValueError)

\* try: return int(correct_answer, 16) == int(user_answer, 16)
\* except ValueError: return False
HexCompare(u, c) ==
    IF IntBase16(c) = ValueError \/ IntBase16(u) = ValueError
    THEN Return(FALSE)
    ELSE Return(IntBase16(c) = IntBase16(u))

PacketQuiz_check_answer(user_answer0, correct_answer0) ==
    LET u == Normalize(user_answer0)
        c == Normalize(correct_answer0)
    IN  IF u = c THEN Return(TRUE)
        ELSE IF BooleanApplies(u, c) THEN Return(ExpandBoolean(u) = c)
        ELSE IF HexApplies(u, c) THEN HexCompare(u, c)
        ELSE Return(FALSE)

(***************************************************************************)
(* The flag table of TCPFlagsQuiz.check_answer                             *)
(***************************************************************************)
flag_patterns ==
    ("fin" :> <<"fin", "0x01", "tcp-fin">>) @@
    ("syn" :> <<"syn", "0x02", "tcp-syn">>) @@
    ("rst" :> <<"rst", "0x04", "tcp-rst">>) @@
    ("psh" :> <<"psh", "0x08", "tcp-psh">>) @@
    ("ack" :> <<"ack", "0x10", "tcp-ack">>) @@
    ("urg" :> <<"urg", "0x20", "tcp-urg">>) @@
    ("fin+ack" :> <<"fin+ack", "ack+fin", "0x11", "tcp-fin|tcp-ack">>) @@
    ("syn+ack" :> <<"syn+ack", "ack+syn", "0x12", "tcp-syn|tcp-ack">>) @@
    ("rst+ack" :> <<"rst+ack", "ack+rst", "0x14", "tcp-rst|tcp-ack">>) @@
    ("psh+ack" :> <<"psh+ack", "ack+psh", "0x18", "tcp-psh|tcp-ack">>)

In(x, list) == \E k \in 1..Len(list) : list[k] = x

\* A plausible slip: the membership test looks only at the entry's key.
FlagLoopKeyOnly(u, c) ==
    \E key \in DOMAIN flag_patterns : c = key /\ In(u, flag_patterns[key])

\* A plausible slip: the two texts are looked up separately, each in any
\* entry of the table.
FlagLoopAnyEntry(u, c) ==
    /\ \E key \in DOMAIN flag_patterns : In(c, flag_patterns[key])
    /\ \E key \in DOMAIN flag_patterns : In(u, flag_patterns[key])

\* for key, patterns in flag_patterns.items():
\*     if correct_answer in patterns and user_answer in patterns: return True
FlagLoop(u, c) ==
    \E key \in DOMAIN flag_patterns :
        In(c, flag_patterns[key]) /\ In(u, flag_patterns[key])

TCPFlagsQuiz_check_answer(user_answer0, correct_answer0) ==
    LET u == Normalize(user_answer0)
        c == Normalize(correct_answer0)
    IN  IF u = c THEN Return(TRUE)
        ELSE IF BooleanApplies(u, c) THEN Return(ExpandBoolean(u) = c)
        ELSE IF HexApplies(u, c) THEN HexCompare(u, c)
        ELSE Return(FlagLoop(u, c))

check_answer(q, u, c) ==
    IF q = PACKET THEN PacketQuiz_check_answer(u, c)
    ELSE TCPFlagsQuiz_check_answer(u, c)

(***************************************************************************)
(* The question banks (self.questions as built by __init__).  The fields   *)
(* 'text' and 'explanation' are only printed and are left out.             *)
(***************************************************************************)
PacketQuiz_questions == <<
    [id |-> 1, answer |-> "ff:ff:ff:ff:ff:ff", packet_index |-> 0,
       hex_location |-> "0000 ffffffffffff",
       options |-> <<"00:1a:2b:3c:4d:5e", "ff:ff:ff:ff:ff:ff", "00:1c:2d:3e:4f:60", "c0:a8:01:02">>],
    [id |-> 2, answer |-> "0x0806", packet_index |-> 0,
       hex_location |-> "000c 0806",
       options |-> <<"0x0800", "0x0806", "0x8035", "0x86DD">>],
    [id |-> 3, answer |-> "192.168.1.1", packet_index |-> 0,
       hex_location |-> "0026 c0a80101",
       options |-> <<"192.168.1.1", "192.168.1.2", "8.8.8.8", "93.184.216.34">>],
    [id |-> 4, answer |-> "False", packet_index |-> 0,
       hex_location |-> "0026 c0a80101",
       options |-> <<"True", "False">>],
    [id |-> 5, answer |-> "0x0001 (Request)", packet_index |-> 0,
       hex_location |-> "0014 0001",
       options |-> <<"0x0001 (Request)", "0x0002 (Reply)", "0x0003 (RARP Request)", "0x0004 (RARP Reply)">>],
    [id |-> 6, answer |-> "8.8.8.8", packet_index |-> 1,
       hex_location |-> "001e 08080808",
       options |-> <<"192.168.1.1", "192.168.1.2", "8.8.8.8", "93.184.216.34">>],
    [id |-> 7, answer |-> "1", packet_index |-> 1,
       hex_location |-> "0017 01",
       options |-> <<"1", "6", "17", "47">>],
    [id |-> 8, answer |-> "8", packet_index |-> 1,
       hex_location |-> "0022 08",
       options |-> <<"0", "3", "5", "8">>],
    [id |-> 9, answer |-> "False", packet_index |-> 1,
       hex_location |-> "0016 04",
       options |-> <<"True", "False">>],
    [id |-> 10, answer |-> "80", packet_index |-> 2,
       hex_location |-> "0024 0050",
       options |-> <<"80", "443", "53", "45678">>],
    [id |-> 11, answer |-> "SYN", packet_index |-> 2,
       hex_location |-> "002f 02",
       options |-> <<"SYN", "ACK", "FIN", "RST">>],
    [id |-> 12, answer |-> "192.168.1.2", packet_index |-> 2,
       hex_location |-> "001a c0a80102",
       options |-> <<"192.168.1.1", "192.168.1.2", "8.8.8.8", "93.184.216.34">>],
    [id |-> 13, answer |-> "93.184.216.34", packet_index |-> 2,
       hex_location |-> "001e 5db8d822",
       options |-> <<"192.168.1.1", "192.168.1.2", "8.8.8.8", "93.184.216.34">>],
    [id |-> 14, answer |-> "45678", packet_index |-> 2,
       hex_location |-> "0022 b25e",
       options |-> <<"80", "443", "53", "45678">>],
    [id |-> 15, answer |-> "True", packet_index |-> 2,
       hex_location |-> "0036 47455420202f20485454502f312e31",
       options |-> <<"True", "False">>],
    [id |-> 16, answer |-> "8192", packet_index |-> 2,
       hex_location |-> "0030 2000",
       options |-> <<"4096", "5840", "8192", "32768">>],
    [id |-> 17, answer |-> "8", packet_index |-> 3,
       hex_location |-> "002e 80",
       options |-> <<"5", "8", "10", "12">>],
    [id |-> 18, answer |-> "IPv4", packet_index |-> 3,
       hex_location |-> "000e 4",
       options |-> <<"IPv4", "IPv6", "IPv5", "IPv4 with extensions">>],
    [id |-> 19, answer |-> "1024", packet_index |-> 3,
       hex_location |-> "0038 0400",
       options |-> <<"1024", "1460", "1500", "9000">>],
    [id |-> 20, answer |-> "False", packet_index |-> 3,
       hex_location |-> "002f 80",
       options |-> <<"True", "False">>],
    [id |-> 21, answer |-> "53", packet_index |-> 4,
       hex_location |-> "0024 0035",
       options |-> <<"53", "80", "443", "67">>],
    [id |-> 22, answer |-> "17", packet_index |-> 4,
       hex_location |-> "0017 11",
       options |-> <<"1", "6", "17", "47">>],
    [id |-> 23, answer |-> "example.com", packet_index |-> 4,
       hex_location |-> "0036 07657861706c6503636f6d00",
       options |-> <<"example.com", "google.com", "dns.com", "local.net">>],
    [id |-> 24, answer |-> "TXT", packet_index |-> 4,
       hex_location |-> "0043 0010",
       options |-> <<"A", "AAAA", "MX", "TXT">>],
    [id |-> 25, answer |-> "49573", packet_index |-> 4,
       hex_location |-> "0022 c1a5",
       options |-> <<"53", "49573", "80", "443">>],
    [id |-> 26, answer |-> "0x0001 (Ethernet)", packet_index |-> 0,
       hex_location |-> "000e 0001",
       options |-> <<"0x0001 (Ethernet)", "0x0006 (IEEE 802)", "0x0007 (ARCNET)", "0x000F (Frame Relay)">>],
    [id |-> 27, answer |-> "0x0800 (IPv4)", packet_index |-> 0,
       hex_location |-> "0010 0800",
       options |-> <<"0x0800 (IPv4)", "0x0806 (ARP)", "0x86DD (IPv6)", "0x8035 (RARP)">>],
    [id |-> 28, answer |-> "True", packet_index |-> 0,
       hex_location |-> "0020 000000000000",
       options |-> <<"True", "False">>],
    [id |-> 29, answer |-> "6", packet_index |-> 0,
       hex_location |-> "0012 06",
       options |-> <<"4", "6", "8", "10">>],
    [id |-> 30, answer |-> "4", packet_index |-> 0,
       hex_location |-> "0013 04",
       options |-> <<"2", "4", "6", "8">>],
    [id |-> 31, answer |-> "0x0102", packet_index |-> 1,
       hex_location |-> "0012 0102",
       options |-> <<"0x0102", "0x0000", "0x4001", "0xf77c">>],
    [id |-> 32, answer |-> "0", packet_index |-> 1,
       hex_location |-> "0023 00",
       options |-> <<"0", "1", "3", "8">>],
    [id |-> 33, answer |-> "60", packet_index |-> 1,
       hex_location |-> "0010 003c",
       options |-> <<"60", "64", "84", "100">>],
    [id |-> 34, answer |-> "True", packet_index |-> 1,
       hex_location |-> "0014 4000",
       options |-> <<"True", "False">>],
    [id |-> 35, answer |-> "4096", packet_index |-> 1,
       hex_location |-> "0028 1000",
       options |-> <<"4096", "2048", "1024", "8192">>],
    [id |-> 36, answer |-> "20 bytes", packet_index |-> 2,
       hex_location |-> "000e 45",
       options |-> <<"20 bytes", "24 bytes", "28 bytes", "32 bytes">>],
    [id |-> 37, answer |-> "0", packet_index |-> 2,
       hex_location |-> "002a 00000000",
       options |-> <<"0", "1", "1000", "65535">>],
    [id |-> 38, answer |-> "False", packet_index |-> 2,
       hex_location |-> "002f 02",
       options |-> <<"True", "False">>],
    [id |-> 39, answer |-> "0", packet_index |-> 2,
       hex_location |-> "0034 0000",
       options |-> <<"0", "1", "16", "32">>],
    [id |-> 40, answer |-> "72", packet_index |-> 2,
       hex_location |-> "0010 0048",
       options |-> <<"40", "48", "60", "72">>],
    [id |-> 41, answer |-> "8", packet_index |-> 3,
       hex_location |-> "003b 01030308",
       options |-> <<"1", "3", "7", "8">>],
    [id |-> 42, answer |-> "0x012c3d4e", packet_index |-> 3,
       hex_location |-> "0045 012c3d4e",
       options |-> <<"0x012c3d4e", "0x00000000", "0x01030308", "0x02040405">>],
    [id |-> 43, answer |-> "True", packet_index |-> 3,
       hex_location |-> "002f 80",
       options |-> <<"True", "False">>],
    [id |-> 44, answer |-> "92", packet_index |-> 3,
       hex_location |-> "0010 005c",
       options |-> <<"60", "72", "84", "92">>],
    [id |-> 45, answer |-> "0x4e000000", packet_index |-> 3,
       hex_location |-> "0048 4e000000",
       options |-> <<"0x4e000000", "0x012c3d4e", "0x01030308", "0x02040405">>],
    [id |-> 46, answer |-> "40", packet_index |-> 4,
       hex_location |-> "0026 0028",
       options |-> <<"8", "16", "28", "40">>],
    [id |-> 47, answer |-> "0x0123", packet_index |-> 4,
       hex_location |-> "002a 0123",
       options |-> <<"0x0123", "0xa123", "0xbb23", "0xb123">>],
    [id |-> 48, answer |-> "False", packet_index |-> 4,
       hex_location |-> "002c 0100",
       options |-> <<"True", "False">>],
    [id |-> 49, answer |-> "1", packet_index |-> 4,
       hex_location |-> "002e 0001",
       options |-> <<"0", "1", "2", "4">>],
    [id |-> 50, answer |-> "IN (Internet)", packet_index |-> 4,
       hex_location |-> "0045 0001",
       options |-> <<"IN (Internet)", "CH (Chaos)", "HS (Hesiod)", "ANY">>]
    >>

TCPFlagsQuiz_questions == <<
    [id |-> 1, answer |-> "FIN",
       options |-> <<"SYN", "FIN", "RST", "ACK">>],
    [id |-> 2, answer |-> "False",
       options |-> <<"True", "False">>],
    [id |-> 3, answer |-> "TCP SYN (start)",
       options |-> <<"Connection termination", "TCP SYN (start)", "Data transfer", "Connection reset">>],
    [id |-> 4, answer |-> "0x02",
       options |-> <<"0x01", "0x02", "0x04", "0x10">>],
    [id |-> 5, answer |-> "RST + ACK",
       options |-> <<"SYN + ACK", "FIN + ACK", "RST + ACK", "PSH + ACK">>],
    [id |-> 6, answer |-> "RST",
       options |-> <<"PSH", "ACK", "RST", "SYN">>],
    [id |-> 7, answer |-> "FIN packets",
       options |-> <<"SYN packets", "RST packets", "FIN packets", "No-flag packets">>],
    [id |-> 8, answer |-> "SYN-only packets",
       options |-> <<"SYN-only packets", "ACK-only packets", "SYN+ACK packets", "RST packets">>],
    [id |-> 9, answer |-> "ACK-only (data transfer)",
       options |-> <<"SYN packets", "ACK-only (data transfer)", "FIN packets", "RST packets">>],
    [id |-> 10, answer |-> "0x12",
       options |-> <<"0x02", "0x12", "0x10", "0x04">>],
    [id |-> 11, answer |-> "True",
       options |-> <<"True", "False">>],
    [id |-> 12, answer |-> "Any PSH packet",
       options |-> <<"Any SYN packet", "Any RST packet", "Any PSH packet", "Any ACK packet">>],
    [id |-> 13, answer |-> "True",
       options |-> <<"True", "False">>],
    [id |-> 14, answer |-> "FIN+ACK",
       options |-> <<"SYN+ACK", "FIN+ACK", "RST+ACK", "PSH+ACK">>],
    [id |-> 15, answer |-> "0x10",
       options |-> <<"0x01", "0x02", "0x04", "0x10">>],
    [id |-> 16, answer |-> "PSH+ACK",
       options |-> <<"SYN only", "PSH+ACK", "FIN+SYN", "RST only">>],
    [id |-> 17, answer |-> "True",
       options |-> <<"True", "False">>],
    [id |-> 18, answer |-> "tcp[13] & 0x03 != 0",
       options |-> <<"tcp[13] & 0x03 != 0", "tcp[13] & 0x12 != 0", "tcp[13] & 0x06 != 0", "tcp[13] & 0x11 != 0">>],
    [id |-> 19, answer |-> "tcp[13] & 0x10 = 0",
       options |-> <<"tcp[13] & 0x10 = 0", "tcp[13] & 0x10 != 0", "tcp[13] = 0x10", "tcp[13] != 0x10">>],
    [id |-> 20, answer |-> "URG and any other flag",
       options |-> <<"Only URG", "URG and any other flag", "Only RST", "RST and any other flag">>],
    [id |-> 21, answer |-> "SYN+ACK",
       options |-> <<"FIN+ACK", "SYN+ACK", "RST+ACK", "PSH+ACK">>],
    [id |-> 22, answer |-> "True",
       options |-> <<"True", "False">>],
    [id |-> 23, answer |-> "URG",
       options |-> <<"SYN", "ACK", "URG", "PSH">>],
    [id |-> 24, answer |-> "Packets with no common flags",
       options |-> <<"All TCP packets", "Packets with no common flags", "Only ECE and CWR flags", "Invalid packets">>],
    [id |-> 25, answer |-> "tcp[13] = 0x10",
       options |-> <<"tcp[13] = 0x02", "tcp[13] = 0x12", "tcp[13] = 0x10", "tcp[13] = 0x04">>],
    [id |-> 26, answer |-> "RST-only packets",
       options |-> <<"SYN-only packets", "RST-only packets", "ACK-only packets", "FIN-only packets">>],
    [id |-> 27, answer |-> "tcp[13] = 0x08",
       options |-> <<"tcp[13] = 0x08", "tcp[13] = 0x18", "tcp[13] & 0x18 = 0x08", "tcp[13] & 0x08 = 0x08">>],
    [id |-> 28, answer |-> "SYN-only packets",
       options |-> <<"SYN+ACK packets", "SYN-only packets", "ACK-only packets", "RST packets">>],
    [id |-> 29, answer |-> "PSH+ACK+FIN",
       options |-> <<"SYN+ACK+FIN", "PSH+ACK+FIN", "RST+ACK+FIN", "URG+ACK+FIN">>],
    [id |-> 30, answer |-> "True",
       options |-> <<"True", "False">>],
    [id |-> 31, answer |-> "Any packet with ACK set",
       options |-> <<"Only ACK packets", "Any packet with ACK set", "Only SYN packets", "Any packet with SYN set">>],
    [id |-> 32, answer |-> "tcp[13] & 0x05 != 0",
       options |-> <<"tcp[13] & 0x05 != 0", "tcp[13] & 0x06 != 0", "tcp[13] & 0x03 != 0", "tcp[13] & 0x14 != 0">>],
    [id |-> 33, answer |-> "Packets with no flags set",
       options |-> <<"All TCP packets", "No TCP packets", "Packets with no flags set", "Invalid packets">>],
    [id |-> 34, answer |-> "PSH+ACK+RST",
       options |-> <<"SYN+ACK+RST", "PSH+ACK+RST", "FIN+ACK+RST", "URG+ACK+RST">>],
    [id |-> 35, answer |-> "ACK+URG",
       options |-> <<"ACK+SYN", "ACK+RST", "ACK+URG", "ACK+PSH">>],
    [id |-> 36, answer |-> "tcp[13] = 0x12",
       options |-> <<"tcp[13] = 0x02", "tcp[13] = 0x12", "tcp[13] = 0x10", "tcp[13] = 0x04">>],
    [id |-> 37, answer |-> "False",
       options |-> <<"True", "False">>],
    [id |-> 38, answer |-> "FIN+ACK+URG",
       options |-> <<"FIN+PSH+URG", "FIN+ACK+URG", "SYN+ACK+URG", "RST+ACK+URG">>],
    [id |-> 39, answer |-> "tcp[13] & 0x12 = 0x10",
       options |-> <<"tcp[13] & 0x12 = 0x10", "tcp[13] & 0x12 = 0x02", "tcp[13] = 0x10", "tcp[13] = 0x12">>],
    [id |-> 40, answer |-> "Packets with no FIN, SYN, RST, or ACK",
       options |-> <<"All TCP packets", "Packets with no FIN, SYN, RST, or ACK", "Only PSH packets", "Invalid packets">>],
    [id |-> 41, answer |-> "PSH",
       options |-> <<"SYN", "ACK", "RST", "PSH">>],
    [id |-> 42, answer |-> "Packets with at least one flag set",
       options |-> <<"All TCP packets", "Packets with at least one flag set", "Only ECE and CWR flags", "Invalid packets">>],
    [id |-> 43, answer |-> "True",
       options |-> <<"True", "False">>],
    [id |-> 44, answer |-> "tcp[13] = 0x01",
       options |-> <<"tcp[13] = 0x01", "tcp[13] = 0x11", "tcp[13] & 0x11 = 0x01", "tcp[13] & 0x01 = 0x01">>],
    [id |-> 45, answer |-> "FIN+SYN+RST",
       options |-> <<"FIN+SYN+RST", "FIN+SYN+PSH", "FIN+RST+PSH", "SYN+RST+PSH">>],
    [id |-> 46, answer |-> "tcp[13] & 0x28 != 0",
       options |-> <<"tcp[13] & 0x28 != 0", "tcp[13] & 0x18 != 0", "tcp[13] & 0x30 != 0", "tcp[13] & 0x0C != 0">>],
    [id |-> 47, answer |-> "RST-only packets",
       options |-> <<"SYN-only packets", "RST-only packets", "ACK-only packets", "FIN-only packets">>],
    [id |-> 48, answer |-> "True",
       options |-> <<"True", "False">>],
    [id |-> 49, answer |-> "RST+ACK",
       options |-> <<"SYN+ACK", "FIN+ACK", "RST+ACK", "PSH+ACK">>],
    [id |-> 50, answer |-> "SYN+ACK packets",
       options |-> <<"SYN-only packets", "ACK-only packets", "SYN+ACK packets", "RST packets">>]
    >>

(***************************************************************************)
(* The session: __init__ and run_quiz                                      *)
(***************************************************************************)
Bank(q) == IF q = PACKET THEN PacketQuiz_questions ELSE TCPFlagsQuiz_questions

AllIds(q) == [k \in 1..Len(Bank(q)) |-> Bank(q)[k].id]

\* The question record a bank id stands for.
PacketById ==
    [id \in {PacketQuiz_questions[k].id : k \in 1..Len(PacketQuiz_questions)} |->
        CHOOSE x \in {PacketQuiz_questions[k] : k \in 1..Len(PacketQuiz_questions)} :
            x.id = id]

FlagsById ==
    [id \in {TCPFlagsQuiz_questions[k].id : k \in 1..Len(TCPFlagsQuiz_questions)} |->
        CHOOSE x \in {TCPFlagsQuiz_questions[k] : k \in 1..Len(TCPFlagsQuiz_questions)} :
            x.id = id]

Question(q, id) == IF q = PACKET THEN PacketById[id] ELSE FlagsById[id]

\* One entry of out: a line group printed about question id, or an input()
\* read while question id is the current one.
Printed(what, id) == [event |-> "print", what |-> what, id |-> id]

Read(what, id) == [event |-> "input", what |-> what, id |-> id]

\* The hex dump printed about question id, with the offset and num_bytes
\* that format_hex_dump was given.
PrintedDump(id, offset0, num_bytes0) ==
    [event |-> "print", what |-> "hex dump", id |-> id,
     offset |-> offset0, num_bytes |-> num_bytes0]

\* No format_hex_dump call is in progress.
NoDump ==
    /\ hex_string = ""
    /\ offset = None
    /\ num_bytes = None
    /\ dump_i = 0
    /\ formatted_dump = ""

\* argparse: default=20
DefaultNumQuestions == 20

\* A packet of the corpus, as the keys run_quiz reads of it.
WholePacket == {"name", "hex_dump"}

\* What json.load returns on a corpus that serves every question of the
\* bank: a JSON object whose 'packets' is a list of five packets (the
\* questions' packet_index runs from 0 to 4).  A JSON object is the function
\* from its keys, a list the sequence of its items.
packet_samples == [packets |-> [k \in 1..5 |-> WholePacket]]

\* The state __init__ leaves (self.score = 0); quiz_questions, a local of
\* run_quiz, is set beside it.
Constructed(n, start, bank) ==
    /\ packet_data = (IF quiz = PACKET THEN packet_samples ELSE None)
    /\ questions = bank
    /\ num_questions = n
    /\ start_question_id = start
    /\ i = 0
    /\ score = 0
    /\ user_option = ""
    /\ is_correct = FALSE
    /\ report = <<>>
    /\ out = <<>>
    /\ raised = NoException

Min(a, b) == IF a < b THEN a ELSE b

Max(a, b) == IF a > b THEN a ELSE b

\* A plausible slip: the slice takes one element too many.
PySliceToOneMore(seq, stop) ==
    SubSeq(seq, 1, Min(stop + 1, Len(seq)))

\* seq[:stop], with Python's meaning of a negative or too large stop.
PySliceTo(seq, stop) ==
    IF stop < 0
    THEN SubSeq(seq, 1, Max(Len(seq) + stop, 0))
    ELSE SubSeq(seq, 1, Min(stop, Len(seq)))

\* Every outcome of random.shuffle(seq).
Shuffles(seq) ==
    {[k \in DOMAIN seq |-> seq[p[k]]] : p \in Permutations(DOMAIN seq)}

\* The loop of lines 627-631: the question whose id is start_question_id
\* (the last one, were there several), and the others in bank order.
RECURSIVE RemainingQuestions(_, _)
RemainingQuestions(bank, id) ==
    IF bank = <<>> THEN <<>>
    ELSE IF Head(bank) = id THEN RemainingQuestions(Tail(bank), id)
    ELSE <<Head(bank)>> \o RemainingQuestions(Tail(bank), id)

StartQuestionFound(bank, id) == \E k \in 1..Len(bank) : bank[k] = id

\* A plausible slip: the start question is left among the remaining ones.
PinnedSelectionKeepsStart(bank, id, shuffled, n) ==
    <<id>> \o PySliceTo(bank, n - 1)

\* [start_question] + remaining_questions[:self.num_questions - 1]
PinnedSelection(bank, id, shuffled, n) ==
    <<id>> \o PySliceTo(shuffled, n - 1)

LoopEntry(selected) == IF Len(selected) > 0 THEN "present" ELSE "report"

SelectPinned ==
    /\ pc = "start"
    /\ quiz = PACKET
    /\ start_question_id # None
    /\ StartQuestionFound(questions, start_question_id[1])
    /\ \E shuffled \in Shuffles(RemainingQuestions(questions, start_question_id[1])) :
          quiz_questions' =
              PinnedSelection(questions, start_question_id[1], shuffled, num_questions)
    /\ out' = Append(out, Printed("starting with", start_question_id[1]))
    /\ pc' = LoopEntry(quiz_questions')
    /\ UNCHANGED <<quiz, packet_data, questions, num_questions, start_question_id, i, score,
                   user_answer, user_option, correct_answer, is_correct,
                   report, dumpVars, raised>>

\* A run_quiz that gives up on an unknown start question.
SelectNotFoundExits ==
    /\ pc = "start"
    /\ start_question_id # None
    /\ ~StartQuestionFound(questions, start_question_id[1])
    /\ out' = Append(out, Printed("not found", start_question_id[1]))
    /\ raised' = "SystemExit"
    /\ pc' = "crashed"
    /\ UNCHANGED <<quiz, packet_data, questions, num_questions, start_question_id,
                   quiz_questions, i, score, user_answer, user_option,
                   correct_answer, is_correct, report, dumpVars>>

SelectNotFound ==
    /\ pc = "start"
    /\ quiz = PACKET
    /\ start_question_id # None
    /\ ~StartQuestionFound(questions, start_question_id[1])
    /\ out' = Append(out, Printed("not found", start_question_id[1]))
    /\ questions' \in Shuffles(questions)
    /\ quiz_questions' = PySliceTo(questions', num_questions)
    /\ pc' = LoopEntry(quiz_questions')
    /\ UNCHANGED <<quiz, packet_data, num_questions, start_question_id, i, score,
                   user_answer, user_option, correct_answer, is_correct,
                   report, dumpVars, raised>>

SelectUnpinned ==
    /\ pc = "start"
    /\ start_question_id = None
    /\ questions' \in Shuffles(questions)
    /\ quiz_questions' = PySliceTo(questions', num_questions)
    /\ pc' = LoopEntry(quiz_questions')
    /\ UNCHANGED <<quiz, packet_data, num_questions, start_question_id, i, score,
                   user_answer, user_option, correct_answer, is_correct,
                   report, out, dumpVars, raised>>

\* packet = self.packet_data['packets'][question['packet_index']], then
\* packet['name'] and packet['hex_dump']: the exception that the lookups
\* raise, or NoException.
PacketLookup(data, packet_index) ==
    IF "packets" \notin DOMAIN data THEN "KeyError"
    ELSE IF packet_index >= Len(data.packets) THEN "IndexError"
    ELSE IF ~(WholePacket \subseteq data.packets[packet_index + 1]) THEN "KeyError"
    ELSE NoException

\* A plausible slip: the first dump already shows the question's span.
DumpBeforeAnswerHighlighted(id) ==
    PrintedDump(id, <<0>>, <<1>>)

\* formatted_dump = self.format_hex_dump(packet['hex_dump']): the dump shown
\* with the question has no highlight.
DumpBeforeAnswer(id) == PrintedDump(id, None, None)

\* The head of the for loop: the next question's header and text are shown,
\* then (packet quiz) the packet is looked up and its dump is printed
\* without a highlight, then the options are listed.
Present ==
    /\ pc = "present"
    /\ LET id == quiz_questions[i + 1]
           lookup == IF quiz = PACKET
                     THEN PacketLookup(packet_data, Question(quiz, id).packet_index)
                     ELSE NoException
       IN  IF lookup # NoException
           THEN /\ out' = Append(out, Printed("question", id))
                /\ raised' = lookup
                /\ pc' = "crashed"
                /\ UNCHANGED <<offset, num_bytes>>
           ELSE /\ raised' = raised
                /\ pc' = "answer"
                /\ IF quiz = PACKET
                   THEN /\ offset' = DumpBeforeAnswer(id).offset
                        /\ num_bytes' = DumpBeforeAnswer(id).num_bytes
                        /\ out' = out \o <<Printed("question", id),
                                           DumpBeforeAnswer(id),
                                           Printed("options", id)>>
                   ELSE /\ UNCHANGED <<offset, num_bytes>>
                        /\ out' = out \o <<Printed("question", id),
                                           Printed("options", id)>>
    /\ UNCHANGED <<quiz, packet_data, questions, num_questions, start_question_id,
                   quiz_questions, i, score, user_answer, user_option,
                   correct_answer, is_correct, report, hex_string, dump_i,
                   formatted_dump>>

Letters == "ABCD"

\* A plausible slip: the index is taken one too high (ord(..) - ord('A') + 1).
ResolveOptionOffByOne(options, answer) ==
    IF upper(answer) \in Chars(Letters)
    THEN LET index == IndexOf(upper(answer), Letters)
         IN  IF 0 <= index /\ index < Len(options) THEN options[index + 1] ELSE ""
    ELSE answer

\* A plausible slip: a letter beyond the options is handed on as typed.
ResolveOptionPassThrough(options, answer) ==
    IF upper(answer) \in Chars(Letters)
    THEN LET index == IndexOf(upper(answer), Letters) - 1
         IN  IF 0 <= index /\ index < Len(options) THEN options[index + 1] ELSE answer
    ELSE answer

\* user_option = ""; a letter A-D inside the option list becomes that
\* option; any other text is taken as typed.  (options[index + 1]: TLA+
\* sequences start at 1.)
ResolveOption(options, answer) ==
    IF upper(answer) \in Chars(Letters)
    THEN LET index == IndexOf(upper(answer), Letters) - 1
         IN  IF 0 <= index /\ index < Len(options) THEN options[index + 1] ELSE ""
    ELSE answer

CurrentQuestion == Question(quiz, quiz_questions[i + 1])

\* What the user may type at "Your answer: ".
LetterInputs == {"A", "B", "C", "D", "a", "b", "c", "d", " b ", "D\t"}

TypedInputs == LetterInputs \cup {"0x806", "t", "xyz", ""}

\* A plausible slip: a wrong answer costs a point.
ScoreAfterPenalty(s, correct) == IF correct THEN s + 1 ELSE s - 1

\* A plausible slip: a right answer counts twice.
ScoreAfterDouble(s, correct) == IF correct THEN s + 2 ELSE s

\* if is_correct: self.score += 1
ScoreAfter(s, correct) == IF correct THEN s + 1 ELSE s

\* str.split() without arguments: the runs of characters between whitespace.
RECURSIVE SplitWhitespace(_)
SplitWhitespace(s) ==
    LET t == lstrip(s)
        ws == {k \in 1..Len(t) : CharAt(t, k) \in WhitespaceChars}
    IN  IF t = "" THEN <<>>
        ELSE IF ws = {} THEN <<t>>
        ELSE LET k == CHOOSE first \in ws : \A other \in ws : first <= other
             IN  <<SubSeq(t, 1, k - 1)>>
                     \o SplitWhitespace(SubSeq(t, k + 1, Len(t)))

RECURSIVE DigitsValue(_)
DigitsValue(digits) ==
    IF digits = <<>> THEN 0
    ELSE 16 * DigitsValue(SubSeq(digits, 1, Len(digits) - 1))
             + digits[Len(digits)]

\* int(text, 16) on a text without whitespace: an optional sign, an optional
\* 0x, then hex digits.
IntOfHex(text) ==
    LET sign == IF text # "" /\ CharAt(text, 1) \in {"+", "-"}
                THEN CharAt(text, 1) ELSE ""
        unsigned == SubSeq(text, Len(sign) + 1, Len(text))
        prefixed == startswith(lower(unsigned), "0x")
        body == IF prefixed THEN SubSeq(unsigned, 3, Len(unsigned)) ELSE unsigned
    IN  IF WellFormedDigits(body) /\ (prefixed \/ CharAt(body, 1) # "_")
        THEN Return((IF sign = "-" THEN -1 ELSE 1) * DigitsValue(DigitsOf(body)))
        ELSE Raise("ValueError")

\* num_bytes = len(hex_data) // 2
SpanLength(hex_data) == Len(hex_data) \div 2

\* The offset and num_bytes that run_quiz takes from a question's
\* hex_location: both None unless the text has two parts and the first is a
\* hex number.
HighlightSpan(hex_location) ==
    LET parts == SplitWhitespace(hex_location)
        absent == [offset |-> None, num_bytes |-> None]
    IN  IF hex_location = "" \/ Len(parts) < 2 THEN absent
        ELSE LET r == IntOfHex(parts[1])
             IN  IF r.raised # NoException THEN absent
                 ELSE [offset |-> <<r.returned>>,
                       num_bytes |-> <<SpanLength(parts[2])>>]

\* input().strip(), the letter resolution, check_answer and the score; then
\* the verdict, (packet quiz) the dump highlighted at the question's
\* hex_location, and the explanation.
AnswerWith(typed) ==
    /\ user_answer' = strip(typed)
    /\ correct_answer' = CurrentQuestion.answer
    /\ user_option' = ResolveOption(CurrentQuestion.options, user_answer')
    /\ LET r == check_answer(quiz, user_option', correct_answer')
       IN  /\ is_correct' = r.returned
           /\ raised' = r.raised
           /\ score' = ScoreAfter(score, r.returned)
    /\ IF quiz = PACKET
       THEN LET span == HighlightSpan(CurrentQuestion.hex_location)
            IN  /\ offset' = span.offset
                /\ num_bytes' = span.num_bytes
                /\ out' = out \o <<Read("answer", CurrentQuestion.id),
                                   Printed("verdict", CurrentQuestion.id),
                                   PrintedDump(CurrentQuestion.id,
                                               span.offset, span.num_bytes),
                                   Printed("explanation", CurrentQuestion.id)>>
       ELSE /\ UNCHANGED <<offset, num_bytes>>
            /\ out' = out \o <<Read("answer", CurrentQuestion.id),
                               Printed("verdict", CurrentQuestion.id),
                               Printed("explanation", CurrentQuestion.id)>>
    /\ pc' = "continue"
    /\ UNCHANGED <<quiz, packet_data, questions, num_questions, start_question_id,
                   quiz_questions, i, report, hex_string, dump_i,
                   formatted_dump>>

\* A plausible slip: the loop steps over every other question.
ContinueSkips ==
    /\ pc = "continue"
    /\ out' = Append(out, Read("enter", quiz_questions[i + 1]))
    /\ i' = i + 2
    /\ pc' = IF i' < Len(quiz_questions) THEN "present" ELSE "report"
    /\ UNCHANGED <<quiz, packet_data, questions, num_questions, start_question_id,
                   quiz_questions, score, user_answer, user_option,
                   correct_answer, is_correct, report, dumpVars, raised>>

\* A plausible slip: the loop goes on without waiting for Enter.
ContinueWithoutWait ==
    /\ pc = "continue"
    /\ i' = i + 1
    /\ pc' = IF i' < Len(quiz_questions) THEN "present" ELSE "report"
    /\ UNCHANGED <<quiz, packet_data, questions, num_questions, start_question_id,
                   quiz_questions, score, user_answer, user_option,
                   correct_answer, is_correct, report, out, dumpVars, raised>>

\* input("Press Enter to continue..."), then the next round of the loop.
Continue ==
    /\ pc = "continue"
    /\ out' = Append(out, Read("enter", quiz_questions[i + 1]))
    /\ i' = i + 1
    /\ pc' = IF i' < Len(quiz_questions) THEN "present" ELSE "report"
    /\ UNCHANGED <<quiz, packet_data, questions, num_questions, start_question_id,
                   quiz_questions, score, user_answer, user_option,
                   correct_answer, is_correct, report, dumpVars, raised>>

\* print("===== Quiz Complete ====="), then
\* print(f"Your score: {score}/{num_questions} ({score/num_questions*100:.1f}%)")
Report ==
    /\ pc = "report"
    /\ out' = Append(out, Printed("quiz complete", 0))
    /\ IF num_questions = 0
       THEN /\ raised' = "ZeroDivisionError"
            /\ report' = report
            /\ pc' = "crashed"
       ELSE /\ raised' = raised
            /\ report' = <<[correct |-> score, total |-> num_questions]>>
            /\ pc' = "done"
    /\ UNCHANGED <<quiz, packet_data, questions, num_questions, start_question_id,
                   quiz_questions, i, score, user_answer, user_option,
                   correct_answer, is_correct, dumpVars>>

\* The flag names of a '+'-joined combination, and their orderings.
RECURSIVE Split(_, _)
Split(s, sep) ==
    LET k == IndexOf(sep, s)
    IN  IF k = 0 THEN <<s>>
        ELSE <<SubSeq(s, 1, k - 1)>> \o Split(SubSeq(s, k + 1, Len(s)), sep)

RECURSIVE Join(_, _)
Join(names, sep) ==
    IF Len(names) = 0 THEN ""
    ELSE IF Len(names) = 1 THEN names[1]
    ELSE names[1] \o sep \o Join(Tail(names), sep)

FlagNames == {"FIN", "SYN", "RST", "PSH", "ACK", "URG"}

IsCombination(answer) ==
    LET names == Split(answer, "+")
    IN  Len(names) >= 2 /\ \A k \in 1..Len(names) : names[k] \in FlagNames

Orderings(answer) == {Join(names, "+") : names \in Shuffles(Split(answer, "+"))}

\* Bank questions of the model's session, and the largest requested count.
BankSize == 4

MaxN == 5

\* The answer step of a session of the model's bank, on a few inputs.
SessionInputs == {"a", "B", " D "}

Answer ==
    /\ pc = "answer"
    /\ \E typed \in SessionInputs : AnswerWith(typed)

\* The answer step on every letter, on free texts and on every ordering of
\* the flag names of the question's answer.
AnswerAny ==
    /\ pc = "answer"
    /\ \E typed \in TypedInputs \cup Orderings(CurrentQuestion.answer) :
          AnswerWith(typed)

(***************************************************************************)
(* A session on the first BankSize questions of the bank, for every        *)
(* requested count the command line accepts and every start question.      *)
(***************************************************************************)
StartChoices(q) ==
    IF q = PACKET THEN {None} \cup {<<id>> : id \in 1..(BankSize + 1)} ELSE {None}

InitQuiz ==
    /\ quiz \in {PACKET, FLAGS}
    /\ \E n \in (-1)..MaxN, start \in StartChoices(quiz) :
          Constructed(n, start, SubSeq(AllIds(quiz), 1, BankSize))
    /\ NoDump
    /\ quiz_questions = <<>>
    /\ user_answer = ""
    /\ correct_answer = ""
    /\ pc = "start"

NextQuiz ==
    \/ SelectPinned
    \/ SelectNotFound
    \/ SelectUnpinned
    \/ Present
    \/ Answer
    \/ Continue
    \/ Report

SpecQuiz == InitQuiz /\ [][NextQuiz]_vars

\* Both input() calls of a round return: the run does not wait for ever.
InputsReturn == []<>(pc # "answer") /\ []<>(pc # "continue")

\* run_quiz is one sequential loop: a statement that can be executed is
\* executed, and every input() returns.
SpecQuizFair ==
    /\ SpecQuiz
    /\ WF_vars(SelectPinned \/ SelectNotFound \/ SelectUnpinned \/ Present \/ Report)
    /\ InputsReturn

(***************************************************************************)
(* One-question sessions (-n 1) over the whole bank: every question of     *)
(* either bank is the question the shuffle put first, and has just been    *)
(* presented.                                                              *)
(***************************************************************************)
MoveToFront(bank, id) == <<id>> \o RemainingQuestions(bank, id)

InitBank ==
    /\ quiz \in {PACKET, FLAGS}
    /\ \E k \in 1..Len(AllIds(quiz)) :
          /\ Constructed(1, None, MoveToFront(AllIds(quiz), AllIds(quiz)[k]))
          /\ quiz_questions = <<AllIds(quiz)[k]>>
    /\ user_answer = ""
    /\ correct_answer = ""
    /\ NoDump
    /\ pc = "answer"

NextBank ==
    \/ AnswerAny
    \/ Continue
    \/ Report

SpecBank == InitBank /\ [][NextBank]_vars

(***************************************************************************)
(* Inputs of the matcher runs                                              *)
(***************************************************************************)
\* Longest text after "0x" in the generated user inputs.
MaxBody == 2

HexAlphabet == {"0", "2", "A", "z", "_", " "}

RECURSIVE TextsOver(_, _)
TextsOver(alphabet, n) ==
    IF n = 0 THEN {""}
    ELSE LET shorter == TextsOver(alphabet, n - 1)
         IN  shorter \cup {t \o ch : t \in shorter, ch \in alphabet}

\* "0x" followed by every text of at most n characters, well formed or not.
HexTexts(n) == {"0x" \o body : body \in TextsOver(HexAlphabet, n)}

FlagTexts ==
    UNION {{flag_patterns[key][k] : k \in 1..Len(flag_patterns[key])} :
              key \in DOMAIN flag_patterns}

UserSamples ==
    {"", " ", "t", "f", "T", " F ", "true", "True", "false", "FALSE", "tr",
     " SYN ", "SYN", "Syn", "ack+syn", "SYN+ACK", "ACK+SYN", "urg+ack",
     "ack+urg", "TCP-SYN", "tcp-syn|tcp-ack", "tcp-ack|tcp-syn", "0X02",
     "0x012", "0xZZ", "0x0001 (Request)", "0x0001", "0x0806", "0x806",
     "0x8035", "c", "D", "xyz", "80", " 80\t", "syn ack", "0x02 "}

CanonicalSamples ==
    {"", "True", "False", "true", "t", "f", "T", "SYN", " Syn", "SYN+ACK",
     "ACK+URG", "PSH+ACK+FIN", "0x02", "0x2", "0X12", "0x0806",
     "0x0001 (Request)", "0xZZ", "FIN", "80", "xyz", "TCP SYN (start)"}

UserInputs == UserSamples \cup FlagTexts \cup HexTexts(MaxBody)

CanonicalInputs == CanonicalSamples \cup FlagTexts \cup HexTexts(MaxBody - 1)

(***************************************************************************)
(* A matcher run: one call of check_answer on a pair of texts              *)
(***************************************************************************)
InitMatch ==
    /\ quiz \in {PACKET, FLAGS}
    /\ Constructed(DefaultNumQuestions, None, AllIds(quiz))
    /\ NoDump
    /\ quiz_questions = <<>>
    /\ user_answer \in UserInputs
    /\ correct_answer \in CanonicalInputs
    /\ pc = "call"

CallCheckAnswer ==
    /\ pc = "call"
    /\ LET r == check_answer(quiz, user_answer, correct_answer)
       IN  /\ is_correct' = r.returned
           /\ raised' = r.raised
    /\ pc' = "returned"
    /\ UNCHANGED <<quiz, packet_data, questions, num_questions, start_question_id,
                   quiz_questions, i, score, user_answer, user_option,
                   correct_answer, report, out, dumpVars>>

NextMatch == CallCheckAnswer

SpecMatch == InitMatch /\ [][NextMatch]_vars

(***************************************************************************)
(* Construction of the packet quiz on every kind of corpus file, then a    *)
(* session.  packet_samples.json is not part of the repository: the file   *)
(* is an input of the program.                                             *)
(***************************************************************************)
\* What open() and json.load() make of the file: the exception raised, or
\* the parsed JSON object.
CorpusFiles ==
    <<"FileNotFoundError", "JSONDecodeError",
      packet_samples,
      [metadata |-> 0],
      [packets |-> <<>>],
      [packets |-> <<{"name"}>>]>>

\* __init__ up to self.packet_data = self.load_packet_data(): a missing file
\* and invalid JSON are reported and end the process with sys.exit(1);
\* whatever json.load returns is kept as it is.
load_packet_data ==
    /\ pc = "construct"
    /\ \E k \in 1..Len(CorpusFiles) :
          LET file == CorpusFiles[k]
          IN
          IF k <= 2
          THEN /\ out' = Append(out, Printed("error", 0))
               /\ raised' = "SystemExit"
               /\ pc' = "exited"
               /\ UNCHANGED packet_data
          ELSE /\ packet_data' = file
               /\ pc' = "start"
               /\ UNCHANGED <<out, raised>>
    /\ UNCHANGED <<quiz, questions, num_questions, start_question_id,
                   quiz_questions, i, score, user_answer, user_option,
                   correct_answer, is_correct, report, dumpVars>>

InitCorpus ==
    /\ quiz = PACKET
    /\ packet_data = None
    /\ questions = SubSeq(AllIds(PACKET), 1, BankSize)
    /\ num_questions \in 1..MaxN
    /\ start_question_id = None
    /\ quiz_questions = <<>>
    /\ i = 0
    /\ score = 0
    /\ user_answer = ""
    /\ user_option = ""
    /\ correct_answer = ""
    /\ is_correct = FALSE
    /\ report = <<>>
    /\ out = <<>>
    /\ NoDump
    /\ raised = NoException
    /\ pc = "construct"

NextCorpus ==
    \/ load_packet_data
    \/ SelectUnpinned
    \/ Present
    \/ Answer
    \/ Continue
    \/ Report

SpecCorpus == InitCorpus /\ [][NextCorpus]_vars

(***************************************************************************)
(* Sessions on banks as run_quiz may find them: self.questions is a plain  *)
(* list, which __init__ fills and nothing examines afterwards.  Beside the *)
(* bank as constructed stand banks in which one entry stands twice.        *)
(***************************************************************************)
\* The bank with its k-th entry replaced by a second copy of the first.
WithDuplicate(bank, k) == [j \in 1..Len(bank) |-> IF j = k THEN bank[1] ELSE bank[j]]

IntegrityBanks(q) ==
    LET bank == SubSeq(AllIds(q), 1, BankSize)
    IN  {bank} \cup {WithDuplicate(bank, k) : k \in 2..BankSize}

InitIntegrity ==
    /\ quiz \in {PACKET, FLAGS}
    /\ \E n \in 1..MaxN, bank \in IntegrityBanks(quiz) :
          Constructed(n, None, bank)
    /\ NoDump
    /\ quiz_questions = <<>>
    /\ user_answer = ""
    /\ correct_answer = ""
    /\ pc = "start"

NextIntegrity ==
    \/ SelectUnpinned
    \/ Present
    \/ Answer
    \/ Continue
    \/ Report

SpecIntegrity == InitIntegrity /\ [][NextIntegrity]_vars

(***************************************************************************)
(* PacketQuiz.format_hex_dump.  The escape character of the colour codes   *)
(* is written as the source writes it, backslash 0 3 3.                    *)
(***************************************************************************)
ESC == "\\033"

HIGHLIGHT_COLOR == ESC \o "[1;32m"

RESET_COLOR == ESC \o "[0m"

\* s[a:b] for 0 <= a <= b
PySlice(s, a, b) == SubSeq(s, a + 1, Min(b, Len(s)))

\* range(0, stop, step)
PyRange(stop, step) ==
    [k \in 1..((stop + step - 1) \div step) |-> (k - 1) * step]

\* format(v, 'x') for v >= 0
RECURSIVE HexOf(_)
HexOf(v) ==
    IF v < 16 THEN CharAt(hexdigits, v + 1)
    ELSE HexOf(v \div 16) \o CharAt(hexdigits, (v % 16) + 1)

\* Zero padding to a minimum width, as the format '0<width>x' does.
RECURSIVE ZeroPad(_, _)
ZeroPad(text, width) ==
    IF Len(text) >= width THEN text ELSE ZeroPad("0" \o text, width)

\* A plausible slip: the label counts hex digits, not bytes.
LineNumberOfDigit(i0) == ZeroPad(HexOf(i0), 4)

\* line_number = f"{i//2:04x}"
LineNumber(i0) == ZeroPad(HexOf(i0 \div 2), 4)

\* A plausible slip: the end of the range is included.
HighlightedInclusive(byte_pos, offset0, num_bytes0) ==
    offset0 <= byte_pos /\ byte_pos <= offset0 + num_bytes0

\* offset <= byte_pos < offset + num_bytes
Highlighted(byte_pos, offset0, num_bytes0) ==
    offset0 <= byte_pos /\ byte_pos < offset0 + num_bytes0

\* A plausible slip: one digit per group.
ByteOfOneDigit(chunk, j) == PySlice(chunk, j, j + 1)

\* byte = chunk[j:j+2]
ByteOf(chunk, j) == PySlice(chunk, j, j + 2)

\* A plausible slip: an offset without a length marks the one byte there.
FormattedByteDefaultLength(chunk, i0, j, offset0, num_bytes0) ==
    LET byte_pos == (i0 + j) \div 2
        byte == ByteOf(chunk, j)
        length == IF num_bytes0 = None THEN 1 ELSE num_bytes0[1]
    IN  IF offset0 # None
        THEN IF Highlighted(byte_pos, offset0[1], length)
             THEN HIGHLIGHT_COLOR \o byte \o RESET_COLOR
             ELSE byte
        ELSE byte

\* The body of the inner loop: what is appended to formatted_bytes.
FormattedByte(chunk, i0, j, offset0, num_bytes0) ==
    LET byte_pos == (i0 + j) \div 2
        byte == ByteOf(chunk, j)
    IN  IF offset0 # None /\ num_bytes0 # None
        THEN IF Highlighted(byte_pos, offset0[1], num_bytes0[1])
             THEN HIGHLIGHT_COLOR \o byte \o RESET_COLOR
             ELSE byte
        ELSE byte

\* The body of the outer loop: what is appended to formatted_lines.
FormattedLine(hex_string0, i0, offset0, num_bytes0) ==
    LET chunk == PySlice(hex_string0, i0, i0 + 32)
        starts == PyRange(Len(chunk), 2)
        formatted_bytes ==
            [k \in 1..Len(starts) |->
                FormattedByte(chunk, i0, starts[k], offset0, num_bytes0)]
    IN  LineNumber(i0) \o "  " \o Join(formatted_bytes, " ")

\* A plausible slip: only whole lines of 16 bytes are produced.
LineStartsWholeOnly(hex_string0) ==
    PyRange(Len(hex_string0) - (Len(hex_string0) % 32), 32)

\* for i in range(0, len(hex_string), 32)
LineStarts(hex_string0) == PyRange(Len(hex_string0), 32)

format_hex_dump(hex_string0, offset0, num_bytes0) ==
    LET starts == LineStarts(hex_string0)
        formatted_lines ==
            [k \in 1..Len(starts) |->
                FormattedLine(hex_string0, starts[k], offset0, num_bytes0)]
    IN  Join(formatted_lines, "\n")

(***************************************************************************)
(* A dump: one call of format_hex_dump on a packet of up to MaxBytes bytes *)
(* with every kind of highlight range.                                     *)
(***************************************************************************)
MaxBytes == 33

\* The bytes of a packet: byte k is first + 37 * k modulo 256.
FirstBytes == {0, 171}

PacketHex(n, first) ==
    Join([k \in 1..n |-> ZeroPad(HexOf((first + 37 * (k - 1)) % 256), 2)], "")

DumpOffsets ==
    {None} \cup {<<k>> : k \in {-2, 0, 1, 15, 16, 17,
                                 MaxBytes - 1, MaxBytes, MaxBytes + 3}}

DumpLengths ==
    {None} \cup {<<k>> : k \in {-1, 0, 1, 2, 16, 17, MaxBytes + 5}}

\* A packet of LongBytes bytes, longer than 16^4: the bytes 00 .. 0f repeated.
LongBytes == 65537

SixteenBytes == "000102030405060708090a0b0c0d0e0f"

RECURSIVE Repeat(_, _)
Repeat(text, n) ==
    IF n = 0 THEN ""
    ELSE IF n % 2 = 1 THEN text \o Repeat(text, n - 1)
    ELSE LET half == Repeat(text, n \div 2) IN half \o half

LongPacket ==
    Repeat(SixteenBytes, LongBytes \div 16)
        \o SubSeq(SixteenBytes, 1, 2 * (LongBytes % 16))

\* A call on a short packet with any highlight setting.
CallStart ==
    /\ \E n \in 0..MaxBytes, first \in FirstBytes : hex_string = PacketHex(n, first)
    /\ offset \in DumpOffsets
    /\ num_bytes \in DumpLengths
    /\ dump_i = 0
    /\ pc = "call"

\* Any round of the outer loop of a call on the long packet.
RoundStart ==
    /\ hex_string = LongPacket
    /\ \E k \in 1..Len(LineStarts(LongPacket)) : dump_i = LineStarts(LongPacket)[k]
    /\ \E range \in {<<None, None>>, <<<<LongBytes - 2>>, <<2>>>>} :
          offset = range[1] /\ num_bytes = range[2]
    /\ pc = "round"

InitDump ==
    /\ quiz = PACKET
    /\ Constructed(DefaultNumQuestions, None, AllIds(PACKET))
    /\ quiz_questions = <<>>
    /\ user_answer = ""
    /\ correct_answer = ""
    /\ formatted_dump = ""
    /\ CallStart \/ RoundStart

CallFormatHexDump ==
    /\ pc = "call"
    /\ formatted_dump' = format_hex_dump(hex_string, offset, num_bytes)
    /\ pc' = "returned"
    /\ UNCHANGED <<quiz, packet_data, questions, num_questions, start_question_id,
                   quiz_questions, i, score, user_answer, user_option,
                   correct_answer, is_correct, report, out, hex_string,
                   offset, num_bytes, dump_i, raised>>

\* One round of the outer loop: the line that formatted_lines.append adds.
AppendLine ==
    /\ pc = "round"
    /\ formatted_dump' = FormattedLine(hex_string, dump_i, offset, num_bytes)
    /\ pc' = "appended"
    /\ UNCHANGED <<quiz, packet_data, questions, num_questions, start_question_id,
                   quiz_questions, i, score, user_answer, user_option,
                   correct_answer, is_correct, report, out, hex_string,
                   offset, num_bytes, dump_i, raised>>

NextDump == CallFormatHexDump \/ AppendLine

SpecDump == InitDump /\ [][NextDump]_vars

(***************************************************************************)
(* Properties of check_answer (runs of SpecMatch)                          *)
(***************************************************************************)
Returned == pc = "returned"

\* The normalized arguments of the call.
NormUser == strip(lower(user_answer))

NormCanonical == strip(lower(correct_answer))

\* Texts that differ from s only in letter case and surrounding whitespace.
Variants(s) ==
    {s, upper(s), lower(s), " " \o s, s \o "\t", "\n" \o upper(s) \o " "}

\* C1: check_answer gives the same verdict for every pair of texts that
\* differ from (user_answer, correct_answer) only in letter case and in
\* leading/trailing whitespace, in both quizzes.
C1_CaseAndWhitespaceInsensitive ==
    Returned =>
        \A u2 \in Variants(user_answer), c2 \in Variants(correct_answer) :
            check_answer(quiz, u2, c2) = Return(is_correct)

C1_Witness ==
    /\ Returned
    /\ user_answer = " SYN "
    /\ correct_answer = "syn"
    /\ is_correct

\* The integer a well-formed hex literal "0x..." denotes.
RECURSIVE NumberOfDigits(_)
NumberOfDigits(digits) ==
    IF digits = <<>> THEN 0
    ELSE 16 * NumberOfDigits(SubSeq(digits, 1, Len(digits) - 1))
            + digits[Len(digits)]

IsHexLiteral(s) == startswith(s, "0x") /\ WellFormedDigits(SubSeq(s, 3, Len(s)))

HexNumber(s) == NumberOfDigits(DigitsOf(SubSeq(s, 3, Len(s))))

\* C2: when both normalized texts start with "0x" and both are hex
\* literals, the verdict is true exactly when the two integers are equal;
\* when one of two different "0x" texts is no hex literal, the verdict is
\* false.
C2_HexEquivalence ==
    Returned =>
        /\ (IsHexLiteral(NormUser) /\ IsHexLiteral(NormCanonical))
              => (is_correct <=> HexNumber(NormUser) = HexNumber(NormCanonical))
        /\ (/\ startswith(NormUser, "0x")
            /\ startswith(NormCanonical, "0x")
            /\ ~(IsHexLiteral(NormUser) /\ IsHexLiteral(NormCanonical))
            /\ NormUser # NormCanonical)
              => ~is_correct

C2_Witness ==
    /\ Returned
    /\ user_answer = "0x02"
    /\ correct_answer = "0x2"
    /\ is_correct

\* C3: with a canonical answer "true" or "false" the inputs "t" and "f"
\* stand for "true" and "false"; with any other canonical answer they are
\* plain texts that match only themselves.
C3_BooleanShortcuts ==
    (Returned /\ NormUser \in {"t", "f"}) =>
        IF NormCanonical \in {"true", "false"}
        THEN is_correct <=>
                (IF NormUser = "t" THEN "true" ELSE "false") = NormCanonical
        ELSE is_correct <=> NormCanonical = NormUser

C3_Witness ==
    /\ Returned
    /\ user_answer = "f"
    /\ correct_answer = "False"
    /\ is_correct

\* The representation set of one flag-table entry.
RepresentationSet(key) ==
    {flag_patterns[key][k] : k \in 1..Len(flag_patterns[key])}

SameFlagEntry(u, c) ==
    \E key \in DOMAIN flag_patterns :
        u \in RepresentationSet(key) /\ c \in RepresentationSet(key)

\* C4: in the flag quiz, for texts not decided by exact equality, the
\* boolean class or the hex class, the verdict is true exactly when both
\* normalized texts belong to the representation set of one table entry;
\* "syn", "0x02", "tcp-syn" are interchangeable, and so are "0x12",
\* "tcp-syn|tcp-ack", "syn+ack".
C4_NamedFlagEquivalence ==
    (Returned /\ quiz = FLAGS) =>
        /\ (/\ NormUser # NormCanonical
            /\ ~BooleanApplies(NormUser, NormCanonical)
            /\ ~HexApplies(NormUser, NormCanonical))
              => (is_correct <=> SameFlagEntry(NormUser, NormCanonical))
        /\ \A set \in {{"syn", "0x02", "tcp-syn"},
                       {"0x12", "tcp-syn|tcp-ack", "syn+ack"}} :
              (NormUser \in set /\ NormCanonical \in set) => is_correct

C4_Witness ==
    /\ Returned
    /\ quiz = FLAGS
    /\ user_answer = "tcp-syn|tcp-ack"
    /\ correct_answer = "0x12"
    /\ is_correct

\* A text no comparison class recognizes: empty, a malformed hex literal,
\* or a word that is neither a boolean word nor (flag quiz) a table member.
IllFormed(u) ==
    \/ u = ""
    \/ startswith(u, "0x") /\ ~IsHexLiteral(u)
    \/ /\ ~startswith(u, "0x")
       /\ u \notin {"true", "false", "t", "f"}
       /\ quiz = FLAGS => u \notin FlagTexts

\* C6: check_answer returns a boolean and raises nothing for every pair of
\* texts; an ill-formed input that is not the canonical text itself is
\* judged false.
C6_Total ==
    Returned =>
        /\ raised = NoException
        /\ is_correct \in BOOLEAN
        /\ (IllFormed(NormUser) /\ NormUser # NormCanonical) => ~is_correct

C6_Witness ==
    /\ Returned
    /\ user_answer = "0xZZ"
    /\ correct_answer = "0x02"
    /\ raised = NoException
    /\ ~is_correct

(***************************************************************************)
(* Properties of the answer step over the whole banks (runs of SpecBank)   *)
(***************************************************************************)
\* The answer to the current question has just been judged.
Answered == pc = "continue"

\* C5: in the flag quiz, when the canonical answer of the question is a
\* combination of flag names joined by '+', every ordering of the same names
\* joined by '+' is judged correct.
C5_CombinationOrderIndependence ==
    (/\ Answered
     /\ quiz = FLAGS
     /\ IsCombination(CurrentQuestion.answer)
     /\ user_answer \in Orderings(CurrentQuestion.answer))
        => is_correct

\* The position a letter stands for.
LetterPosition == ("A" :> 1) @@ ("B" :> 2) @@ ("C" :> 3) @@ ("D" :> 4)

IsLetter(text) == upper(text) \in DOMAIN LetterPosition

\* C7: a single letter A-D (either case) whose position is inside the
\* option list is judged as the option at that position; on question 2 of
\* the packet bank "B" is "0x0806" and correct, "C" is "0x8035" and
\* incorrect, and the text "0x806" is correct.
C7_LetterResolution ==
    Answered =>
        /\ (/\ IsLetter(user_answer)
            /\ LetterPosition[upper(user_answer)] <= Len(CurrentQuestion.options))
              => LET option ==
                        CurrentQuestion.options[LetterPosition[upper(user_answer)]]
                 IN  /\ user_option = option
                     /\ Return(is_correct) =
                            check_answer(quiz, option, CurrentQuestion.answer)
        /\ (quiz = PACKET /\ CurrentQuestion.id = 2) =>
              /\ user_answer = "B" => (user_option = "0x0806" /\ is_correct)
              /\ user_answer = "C" => (user_option = "0x8035" /\ ~is_correct)
              /\ user_answer = "0x806" => is_correct

C7_Witness ==
    /\ Answered
    /\ quiz = PACKET
    /\ CurrentQuestion.id = 2
    /\ user_answer = "b"
    /\ user_option = "0x0806"
    /\ is_correct

OutOfRangeLetter ==
    /\ IsLetter(user_answer)
    /\ LetterPosition[upper(user_answer)] > Len(CurrentQuestion.options)

\* C8 as stated: a letter A-D whose position is not below the number of
\* options is handed to check_answer as typed.
C8_LetterPassedThrough ==
    (Answered /\ OutOfRangeLetter) => user_option = user_answer

\* C8 as amended: a letter A-D whose position is not below the number of
\* options is dropped, and check_answer is handed the empty string.
C8_LetterDropped ==
    (Answered /\ OutOfRangeLetter) => user_option = ""

C8_Witness ==
    /\ Answered
    /\ user_answer = "D"
    /\ Len(CurrentQuestion.options) = 2
    /\ user_option = ""
    /\ ~is_correct

(***************************************************************************)
(* Properties of the selection (runs of SpecQuiz)                          *)
(***************************************************************************)
Selected == pc # "start"

BankIds == {questions[k] : k \in 1..Len(questions)}

NoDuplicates(seq) ==
    \A j, k \in 1..Len(seq) : j # k => seq[j] # seq[k]

\* C9: without a start question and with N >= 1, the selection has exactly
\* min(N, bank size) questions, pairwise distinct, all of the bank.
C9_UnpinnedSelection ==
    (Selected /\ start_question_id = None /\ num_questions >= 1) =>
        /\ Len(quiz_questions) = Min(num_questions, Len(questions))
        /\ NoDuplicates(quiz_questions)
        /\ \A k \in 1..Len(quiz_questions) : quiz_questions[k] \in BankIds
        /\ raised = NoException

C9_Witness ==
    /\ Selected
    /\ start_question_id = None
    /\ num_questions > Len(questions)
    /\ Len(quiz_questions) = Len(questions)
    /\ quiz_questions # SubSeq(AllIds(quiz), 1, Len(questions))

\* C10: with N >= 1 and a start question of the bank, the selection starts
\* with that question, has exactly min(N, bank size) questions and no
\* duplicate, and holds every other question when fewer than N-1 exist.
C10_PinnedSelection ==
    (/\ Selected
     /\ quiz = PACKET
     /\ start_question_id # None
     /\ num_questions >= 1) =>
        (start_question_id[1] \in BankIds =>
            /\ quiz_questions[1] = start_question_id[1]
            /\ Len(quiz_questions) = Min(num_questions, Len(questions))
            /\ NoDuplicates(quiz_questions)
            /\ \A k \in 2..Len(quiz_questions) :
                  /\ quiz_questions[k] # start_question_id[1]
                  /\ quiz_questions[k] \in BankIds
            /\ num_questions - 1 >= Len(questions) - 1 =>
                  {quiz_questions[k] : k \in 1..Len(quiz_questions)} = BankIds
            /\ raised = NoException)

C10_Witness ==
    /\ Selected
    /\ quiz = PACKET
    /\ start_question_id = <<3>>
    /\ num_questions > Len(questions)
    /\ quiz_questions[1] = 3
    /\ Len(quiz_questions) = Len(questions)

(***************************************************************************)
(* The start question that is not in the bank (runs of SpecQuizFair)       *)
(***************************************************************************)
NotFoundPath ==
    /\ Selected
    /\ start_question_id # None
    /\ ~StartQuestionFound(questions, start_question_id[1])
    /\ num_questions >= 1

NotFoundSelection ==
    NotFoundPath =>
        /\ out[1] = Printed("not found", start_question_id[1])
        /\ quiz_questions = SubSeq(questions, 1, Min(num_questions, Len(questions)))
        /\ NoDuplicates(quiz_questions)
        /\ \A k \in 1..Len(quiz_questions) : quiz_questions[k] \in BankIds
        /\ raised = NoException
        /\ pc # "crashed"
        /\ pc \in {"present", "answer", "continue"} => i < Len(quiz_questions)

\* C11: with N >= 1 and a start question id that is not in the bank, run_quiz
\* prints the not-found notice, selects the first min(N, bank size) questions
\* of the shuffled bank as the unpinned path does, raises nothing, and goes on
\* to the final report.
C11_PinnedNotFound ==
    /\ []NotFoundSelection
    /\ NotFoundPath ~> (pc = "done" /\ raised = NoException)

C11_Witness ==
    /\ NotFoundPath
    /\ pc = "done"
    /\ Len(quiz_questions) = Len(questions)
    /\ quiz_questions[1] # AllIds(quiz)[1]
    /\ out[1].what = "not found"

(***************************************************************************)
(* The score (runs of SpecQuiz)                                            *)
(***************************************************************************)
\* The entries of out that are e, and the question ids of a list of entries.
Entries(what) == SelectSeq(out, LAMBDA e : e.what = what)

IdsOf(entries) == [k \in 1..Len(entries) |-> entries[k].id]

AnsweredSoFar == Len(Entries("answer"))

ScoreBounded ==
    /\ 0 <= score
    /\ score <= AnsweredSoFar
    /\ AnsweredSoFar <= Len(quiz_questions)

\* C12: in every state of a session 0 <= score <= answers read so far <=
\* number of selected questions, and no step lowers the score.
C12_ScoreInvariant ==
    /\ []ScoreBounded
    /\ [][score' >= score]_vars

C12_Witness ==
    /\ score = 2
    /\ AnsweredSoFar = 3
    /\ Len(quiz_questions) = 4
    /\ is_correct = FALSE

\* The step that reads and judges the answer to the current question.
AnswerStep == pc = "answer" /\ pc' = "continue"

ScoringStep ==
    IF AnswerStep
    THEN /\ is_correct' =
               check_answer(quiz, user_option', CurrentQuestion.answer).returned
         /\ is_correct' => score' = score + 1
         /\ ~is_correct' => score' = score
         /\ i' = i
    ELSE /\ score' = score
         /\ pc = "continue" => i' = i + 1

AnswersOf(id) == SelectSeq(out, LAMBDA e : e = Read("answer", id))

OneAnswerEach ==
    /\ \A id \in BankIds : Len(AnswersOf(id)) <= 1
    /\ IdsOf(Entries("answer")) = SubSeq(quiz_questions, 1, AnsweredSoFar)

\* C13: the answer step adds exactly one to the score when check_answer
\* returns true for the resolved answer and leaves it alone otherwise, no
\* other step touches the score, and each selected question is answered at
\* most once: after the verdict the loop moves on to the next question.
C13_ScoringStep ==
    /\ []OneAnswerEach
    /\ [][ScoringStep]_vars

C13_Witness ==
    /\ pc = "answer"
    /\ i = 2
    /\ score = 1
    /\ Entries("verdict")[1] = Printed("verdict", quiz_questions[1])
    /\ Len(AnswersOf(quiz_questions[1])) = 1

(***************************************************************************)
(* The course of a session (runs of SpecQuizFair)                          *)
(***************************************************************************)
NotStarted == pc = "start"

InProgress == pc \in {"present", "answer", "continue"}

Complete == pc \in {"report", "done"}

Presented == IdsOf(Entries("question"))

\* NotStarted -> InProgress -> Complete, one phase at a time.
PhaseStep ==
    \/ NotStarted /\ (NotStarted' \/ InProgress')
    \/ InProgress /\ (InProgress' \/ Complete')
    \/ Complete /\ Complete'

InSelectedOrder ==
    /\ pc # "crashed"
    /\ raised = NoException
    /\ Presented = SubSeq(quiz_questions, 1, Len(Presented))
    /\ InProgress => i < Len(quiz_questions)
    /\ pc = "present" => Len(Presented) = i /\ AnsweredSoFar = i
    /\ pc = "answer" => Len(Presented) = i + 1 /\ AnsweredSoFar = i
    /\ pc = "continue" => Len(Presented) = i + 1 /\ AnsweredSoFar = i + 1
    /\ Complete => Presented = quiz_questions /\ AnsweredSoFar = Len(quiz_questions)
    /\ pc = "done" <=> report # <<>>

\* C14: with N >= 1 a session goes from NotStarted through InProgress to
\* Complete, presents the selected questions in their order, each once and
\* each answered before the next is shown, and, as long as every input()
\* returns, prints the final report after exactly len(quiz_questions) answers.
C14_SessionProgress ==
    /\ [](num_questions >= 1 => InSelectedOrder)
    /\ [][num_questions >= 1 => PhaseStep]_vars
    /\ (num_questions >= 1 /\ NotStarted) ~> (pc = "done")

C14_Witness ==
    /\ pc = "done"
    /\ num_questions = 3
    /\ Presented = quiz_questions
    /\ Len(Presented) = 3
    /\ AnsweredSoFar = 3
    /\ Presented # SubSeq(AllIds(quiz), 1, 3)

(***************************************************************************)
(* The final report and the bank (runs of SpecQuiz)                        *)
(***************************************************************************)
\* C15: for N >= 1 the total of the final score pair, which is also the
\* denominator of the percentage, is the number of selected questions.
C15_ReportTotal ==
    (pc = "done" /\ num_questions >= 1) =>
        report[1].total = Len(quiz_questions)

\* The bank as __init__ built it.
BankAsConstructed == SubSeq(AllIds(quiz), 1, Len(questions))

\* C16: after the selection, on every path, the bank holds the same questions
\* in the same order as after construction.
C16_BankNeverMutated ==
    Selected => questions = BankAsConstructed

(***************************************************************************)
(* Properties of format_hex_dump (runs of SpecDump).  The returned text is *)
(* taken apart again: lines at the newlines, the label before the first    *)
(* space, the byte groups after the two spaces.                            *)
(***************************************************************************)
NumberOfBytes == Len(hex_string) \div 2

splitlines(text) == IF text = "" THEN <<>> ELSE Split(text, "\n")

DumpLines == splitlines(formatted_dump)

endswith(s, suffix) ==
    Len(s) >= Len(suffix) /\ SubSeq(s, Len(s) - Len(suffix) + 1, Len(s)) = suffix

LabelOf(line) == Split(line, " ")[1]

GroupsOf(line) ==
    LET parts == Split(line, " ") IN SubSeq(parts, 3, Len(parts))

RECURSIVE Flatten(_)
Flatten(lists) ==
    IF lists = <<>> THEN <<>> ELSE Head(lists) \o Flatten(Tail(lists))

\* The byte groups of the whole dump, in order.
DumpGroups == Flatten([k \in 1..Len(DumpLines) |-> GroupsOf(DumpLines[k])])

Marked(group) ==
    startswith(group, HIGHLIGHT_COLOR) /\ endswith(group, RESET_COLOR)

Unmarked(group) ==
    IF Marked(group)
    THEN SubSeq(group, Len(HIGHLIGHT_COLOR) + 1, Len(group) - Len(RESET_COLOR))
    ELSE group

\* C17: for a hex string of n bytes format_hex_dump returns exactly
\* ceil(n/16) lines, a last partial line included, and none for n = 0.
C17_LineCount ==
    pc = "returned" => Len(DumpLines) = (NumberOfBytes + 15) \div 16

C17_Witness ==
    /\ pc = "returned"
    /\ NumberOfBytes = 17
    /\ Len(DumpLines) = 2
    /\ Len(GroupsOf(DumpLines[2])) = 1

\* Every line is a label, two spaces, and groups separated by one space.
WellShaped(line) ==
    LET parts == Split(line, " ")
    IN  /\ Len(parts) >= 3
        /\ parts[2] = ""
        /\ \A k \in 3..Len(parts) : parts[k] # ""

\* C18: whatever the highlight setting, the byte groups of all lines, in
\* order and without labels, spacing and colour codes, are two hex digits
\* each and together spell the hex string that was passed in.
C18_RoundTrip ==
    pc = "returned" =>
        LET lines == DumpLines
            groups == DumpGroups
        IN  /\ \A k \in 1..Len(lines) : WellShaped(lines[k])
            /\ Len(groups) = NumberOfBytes
            /\ \A k \in 1..Len(groups) :
                  Unmarked(groups[k]) = SubSeq(hex_string, 2 * k - 1, 2 * k)
            /\ Join([k \in 1..Len(groups) |-> Unmarked(groups[k])], "")
                  = hex_string

C18_Witness ==
    /\ pc = "returned"
    /\ NumberOfBytes = MaxBytes
    /\ offset = <<15>>
    /\ num_bytes = <<2>>
    /\ Marked(DumpGroups[16])
    /\ Join([k \in 1..Len(DumpGroups) |-> Unmarked(DumpGroups[k])], "")
          = hex_string

\* The hex digit of a value below 16, and a value as four hex digits.
HexDigit(v) == CharAt("0123456789abcdef", v + 1)

FourHexDigits(v) ==
    HexDigit((v \div 4096) % 16) \o HexDigit((v \div 256) % 16)
        \o HexDigit((v \div 16) % 16) \o HexDigit(v % 16)

\* The number a text of lowercase hex digits stands for, -1 for other texts.
RECURSIVE HexValue(_)
HexValue(text) ==
    IF text = "" THEN 0
    ELSE LET last == CharAt(text, Len(text))
             rest == HexValue(SubSeq(text, 1, Len(text) - 1))
         IN  IF last \notin DOMAIN DigitTable \/ rest = -1 THEN -1
             ELSE 16 * rest + DigitTable[last]

\* The same packet rendered without a highlight.
PlainLines == splitlines(format_hex_dump(hex_string, None, None))

\* The label the claim asks of the line that starts at byte first_byte.
FourDigitLabel(line, first_byte) ==
    /\ LabelOf(line) = FourHexDigits(first_byte)
    /\ startswith(line, FourHexDigits(first_byte) \o "  ")

\* The label format_hex_dump writes: the offset in lowercase hex, padded
\* with zeros to four digits and longer when the offset needs more.
PaddedLabel(line, first_byte) ==
    LET label == LabelOf(line)
    IN  /\ startswith(line, label \o "  ")
        /\ HexValue(label) = first_byte
        /\ Len(label) >= 4
        /\ Len(label) > 4 => CharAt(label, 1) # "0"
        /\ first_byte < 65536 <=> Len(label) = 4
        /\ first_byte < 65536 => FourDigitLabel(line, first_byte)

\* C19 as stated: line k (from 0) of the dump begins with 16 * k as a label
\* of four lowercase hex digits with leading zeros, whatever the highlight.
C19_FourDigitLabels ==
    /\ pc = "returned" =>
          LET lines == DumpLines
              plain == PlainLines
          IN  \A k \in 1..Len(lines) :
                  /\ FourDigitLabel(lines[k], 16 * (k - 1))
                  /\ LabelOf(lines[k]) = LabelOf(plain[k])
    /\ pc = "appended" =>
          /\ FourDigitLabel(formatted_dump, dump_i \div 2)
          /\ LabelOf(formatted_dump)
                = LabelOf(FormattedLine(hex_string, dump_i, None, None))

\* C19 as the code has it: line k begins with 16 * k in lowercase hex, padded
\* with zeros to at least four digits (exactly four below offset 16^4, five
\* or more from there on), followed by two spaces, whatever the highlight.
C19_PaddedLabels ==
    /\ pc = "returned" =>
          LET lines == DumpLines
              plain == PlainLines
          IN  \A k \in 1..Len(lines) :
                  /\ PaddedLabel(lines[k], 16 * (k - 1))
                  /\ LabelOf(lines[k]) = LabelOf(plain[k])
    /\ pc = "appended" =>
          /\ dump_i \div 2 = 16 * (dump_i \div 32)
          /\ PaddedLabel(formatted_dump, dump_i \div 2)
          /\ LabelOf(formatted_dump)
                = LabelOf(FormattedLine(hex_string, dump_i, None, None))

C19_Witness ==
    /\ pc = "appended"
    /\ dump_i \div 32 = 4096
    /\ offset # None
    /\ LabelOf(formatted_dump) = "10000"

\* The positions (from 0) of the marked groups of the dump.
MarkedPositions ==
    LET groups == DumpGroups
    IN  {k \in 0..(Len(groups) - 1) : Marked(groups[k + 1])}

FullyInside ==
    /\ 0 <= offset[1]
    /\ 0 <= num_bytes[1]
    /\ offset[1] + num_bytes[1] <= NumberOfBytes

\* C20: with both parameters given, byte b is marked exactly when
\* offset <= b < offset + num_bytes and every other byte is the bare two
\* digits; for a range inside the packet exactly num_bytes groups are
\* marked, those at offset .. offset + num_bytes - 1.
C20_HighlightRange ==
    (pc = "returned" /\ offset # None /\ num_bytes # None) =>
        LET groups == DumpGroups
            marked == MarkedPositions
        IN  /\ Len(groups) = NumberOfBytes
            /\ \A b \in 0..(NumberOfBytes - 1) :
                  /\ b \in marked <=>
                        (offset[1] <= b /\ b < offset[1] + num_bytes[1])
                  /\ b \notin marked =>
                        groups[b + 1] = SubSeq(hex_string, 2 * b + 1, 2 * b + 2)
            /\ FullyInside =>
                  /\ Cardinality(marked) = num_bytes[1]
                  /\ marked = offset[1]..(offset[1] + num_bytes[1] - 1)

C20_Witness ==
    /\ pc = "returned"
    /\ NumberOfBytes = MaxBytes
    /\ offset = <<15>>
    /\ num_bytes = <<2>>
    /\ MarkedPositions = {15, 16}

(***************************************************************************)
(* Degenerate highlight ranges (runs of SpecDump).                         *)
(***************************************************************************)
\* The positions of the packet's bytes that lie in the requested range.
ExistingInRange ==
    {b \in 0..(NumberOfBytes - 1) :
        offset[1] <= b /\ b < offset[1] + num_bytes[1]}

PastTheEnd ==
    /\ offset # None
    /\ num_bytes # None
    /\ offset[1] + num_bytes[1] > NumberOfBytes

\* C21: a call with an absent parameter (only the offset, only the length,
\* or neither) marks no byte and returns the unhighlighted dump; a zero or
\* negative length marks nothing; a range that runs past the end marks only
\* the bytes that exist inside it; every such call returns without raising.
C21_DegenerateRanges ==
    pc = "returned" =>
        LET marked == MarkedPositions
        IN  /\ raised = NoException
            /\ (offset = None \/ num_bytes = None) =>
                  /\ marked = {}
                  /\ formatted_dump = format_hex_dump(hex_string, None, None)
            /\ (offset # None /\ num_bytes # None /\ num_bytes[1] <= 0) =>
                  marked = {}
            /\ PastTheEnd => marked = ExistingInRange

\* Only the offset is given, on a packet that has a byte there.
C21_Witness ==
    /\ pc = "returned"
    /\ offset = <<1>>
    /\ num_bytes = None
    /\ NumberOfBytes = 17
    /\ MarkedPositions = {}
    /\ Len(DumpGroups) = 17

(***************************************************************************)
(* What a round of the packet quiz shows, and when (runs of SpecQuiz).     *)
(***************************************************************************)
\* The positions in out of the entries equal to e.
PositionsOf(e) == {k \in 1..Len(out) : out[k] = e}

\* Where the answer to question id was read; past the end of out while it
\* has not been read.
AnswerPosition(id) ==
    IF PositionsOf(Read("answer", id)) = {} THEN Len(out) + 1
    ELSE CHOOSE k \in PositionsOf(Read("answer", id)) : TRUE

IsDump(e) == e.what = "hex dump"

IsHighlightedDump(e) == IsDump(e) /\ e.offset # None /\ e.num_bytes # None

IsPlainDump(e) == IsDump(e) /\ e.offset = None /\ e.num_bytes = None

AfterAnswerOnly(e) ==
    e.what \in {"verdict", "explanation"} \/ IsHighlightedDump(e)

\* C22: in the packet quiz the unhighlighted dump and the options of a
\* question are shown before its answer is read; the verdict, the dump
\* highlighted at the question's hex_location and the explanation are shown
\* only after it, in that order; no highlighted dump of a question comes
\* before that question's answer.
C22_RenderOrder ==
    quiz = PACKET =>
        \A id \in {out[k].id : k \in 1..Len(out)} \ {0} :
            LET a == AnswerPosition(id)
                span == HighlightSpan(Question(PACKET, id).hex_location)
            IN  /\ \A k \in 1..Len(out) :
                      (out[k].id = id /\ AfterAnswerOnly(out[k])) => k > a
                /\ \A k \in 1..Len(out) :
                      (out[k].id = id /\ k < a) =>
                          \/ out[k].what \in {"question", "options",
                                              "starting with", "not found"}
                          \/ IsPlainDump(out[k])
                /\ a <= Len(out) =>
                      /\ \E k \in 1..(a - 2) :
                            /\ IsPlainDump(out[k]) /\ out[k].id = id
                            /\ out[k + 1] = Printed("options", id)
                      /\ out[a + 1] = Printed("verdict", id)
                      /\ out[a + 2] = PrintedDump(id, span.offset, span.num_bytes)
                      /\ IsHighlightedDump(out[a + 2])
                      /\ out[a + 3] = Printed("explanation", id)

\* The second question of a packet session has just been answered.
C22_Witness ==
    /\ quiz = PACKET
    /\ pc = "continue"
    /\ i = 1
    /\ Len(out) >= 15
    /\ IsPlainDump(out[Len(out) - 5])
    /\ out[Len(out) - 3] = Read("answer", quiz_questions[2])
    /\ IsHighlightedDump(out[Len(out) - 1])

(***************************************************************************)
(* The packet corpus (runs of SpecCorpus).                                 *)
(***************************************************************************)
\* The file was missing or not JSON, or the loaded data lacks the packets
\* list or the packet of a question of the bank.
CorpusUnavailable ==
    \/ raised = "SystemExit"
    \/ /\ pc # "construct"
       /\ \E k \in 1..Len(questions) :
             PacketLookup(packet_data,
                          Question(PACKET, questions[k]).packet_index)
                 # NoException

\* C23: a run whose packet corpus is missing or malformed never shows a
\* question: the problem is reported and the program ends first.
C23_NoQuestionWithoutCorpus ==
    CorpusUnavailable => Entries("question") = <<>>

RoundStarts == {k \in 1..Len(out) : out[k].what = "question"}

RoundEnd(k) ==
    LET later == {j \in (k + 1)..Len(out) :
                     out[j].what \in {"question", "quiz complete"}}
    IN  IF later = {} THEN Len(out) + 1
        ELSE CHOOSE j \in later : \A other \in later : j <= other

Finished(k) == RoundEnd(k) <= Len(out)

\* The input() calls of the round that starts at k, in order.
ReadsOf(k) ==
    SelectSeq(SubSeq(out, k, RoundEnd(k) - 1), LAMBDA e : e.event = "input")

IsPrefix(s, t) == Len(s) <= Len(t) /\ s = SubSeq(t, 1, Len(s))

\* C25 as stated: between the presentation of a question and the next
\* presentation (or the final report) the session waits for input exactly
\* once, for the answer.
C25_SingleWait ==
    \A k \in RoundStarts :
        Finished(k) => ReadsOf(k) = <<Read("answer", out[k].id)>>

\* C25 as the programs run: every round waits exactly twice, first for the
\* answer and, after verdict and explanation, for Enter; nothing else reads
\* input, and nothing is read outside a round.
C25_TwoWaits ==
    /\ \A k \in RoundStarts :
          LET id == out[k].id
              both == <<Read("answer", id), Read("enter", id)>>
          IN  /\ Finished(k) => ReadsOf(k) = both
              /\ IsPrefix(ReadsOf(k), both)
    /\ \A j \in 1..Len(out) :
          out[j].event = "input" => \E k \in RoundStarts : k < j
    /\ pc = "answer" => Len(ReadsOf(CHOOSE k \in RoundStarts : ~Finished(k))) = 0
    /\ pc = "continue" => Len(ReadsOf(CHOOSE k \in RoundStarts : ~Finished(k))) = 1

\* Two rounds are over and the third question is on the screen.
C25_Witness ==
    /\ pc = "answer"
    /\ i = 2
    /\ Cardinality(RoundStarts) = 3
    /\ Len(Entries("enter")) = 2
    /\ Len(Entries("answer")) = 2

(***************************************************************************)
(* The options of a question under check_answer (runs of SpecBank: every   *)
(* question of either bank is the one on the screen).                      *)
(***************************************************************************)
\* The question of a one-question session.
TheQuestion == Question(quiz, quiz_questions[1])

AcceptedOptions ==
    {k \in 1..Len(TheQuestion.options) :
        check_answer(quiz, TheQuestion.options[k], TheQuestion.answer).returned}

CanonicalOptions ==
    {k \in 1..Len(TheQuestion.options) :
        TheQuestion.options[k] = TheQuestion.answer}

\* C26: for every question of both banks check_answer accepts option k
\* exactly when option k is the canonical answer, there is such an option,
\* and an answer given by letter is judged correct exactly when the letter
\* is that of the canonical answer.
C26_ExactlyOneOption ==
    /\ AcceptedOptions = CanonicalOptions
    /\ Cardinality(AcceptedOptions) = 1
    /\ (pc = "continue" /\ IsLetter(user_answer)) =>
          (is_correct <=> LetterPosition[upper(user_answer)] \in CanonicalOptions)

\* The letter of a wrong hex option was typed and was judged incorrect.
C26_Witness ==
    /\ pc = "continue"
    /\ IsLetter(user_answer)
    /\ LetterPosition[upper(user_answer)] \in 1..Len(TheQuestion.options)
    /\ startswith(Normalize(user_option), "0x")
    /\ startswith(Normalize(correct_answer), "0x")
    /\ user_option # correct_answer
    /\ ~is_correct

(***************************************************************************)
(* The two matchers side by side (runs of SpecMatch).                      *)
(***************************************************************************)
\* C27: whatever PacketQuiz.check_answer accepts, TCPFlagsQuiz.check_answer
\* accepts too, and the two differ only on normalized texts that are two
\* different members of the representation set of one flag-table entry.
C27_MatchersAgree ==
    Returned =>
        LET packet == PacketQuiz_check_answer(user_answer, correct_answer).returned
            flags == TCPFlagsQuiz_check_answer(user_answer, correct_answer).returned
        IN  /\ is_correct = (IF quiz = PACKET THEN packet ELSE flags)
            /\ packet => flags
            /\ packet # flags =>
                  /\ NormUser # NormCanonical
                  /\ SameFlagEntry(NormUser, NormCanonical)

\* The flag quiz has accepted "0x02" for "SYN", which the packet quiz
\* rejects.
C27_Witness ==
    /\ Returned
    /\ quiz = FLAGS
    /\ NormUser = "0x02"
    /\ NormCanonical = "syn"
    /\ is_correct
    /\ ~PacketQuiz_check_answer(user_answer, correct_answer).returned

(***************************************************************************)
(* Hex literals against the answers of the flag bank (runs of SpecMatch).  *)
(***************************************************************************)
FlagBankAnswers ==
    {TCPFlagsQuiz_questions[k].answer : k \in 1..Len(TCPFlagsQuiz_questions)}

\* The inputs that are hex literals of the same value as the text u.
SameValueInputs(u) ==
    {other \in UserInputs :
        /\ IsHexLiteral(Normalize(other))
        /\ HexNumber(Normalize(other)) = HexNumber(Normalize(u))}

\* C28: in the flag quiz, for every canonical answer of the flag bank, two
\* well-formed 0x literals of the same value get the same verdict, whether
\* the answer is a hex literal or a flag name.
C28_HexByValue ==
    (/\ Returned
     /\ quiz = FLAGS
     /\ correct_answer \in FlagBankAnswers
     /\ IsHexLiteral(NormUser)) =>
        \A other \in SameValueInputs(user_answer) :
            TCPFlagsQuiz_check_answer(other, correct_answer).returned = is_correct

(***************************************************************************)
(* The highlight span of every packet question (runs of SpecBank).         *)
(***************************************************************************)
\* C29: after the answer to any question of the packet bank, the offset and
\* the length parsed from its hex_location are both set and the length is
\* at least one byte.
C29_NonEmptySpan ==
    (quiz = PACKET /\ pc = "continue") =>
        /\ offset # None
        /\ num_bytes # None
        /\ num_bytes[1] >= 1

(***************************************************************************)
(* The requested count over every integer (runs of SpecQuiz, whose         *)
(* requested counts start at -1).                                          *)
(***************************************************************************)
\* The selection is never longer than max(N, 0).
SelectionBounded ==
    pc # "start" => Len(quiz_questions) <= Max(num_questions, 0)

\* No session raises.
NeverRaises == raised = NoException /\ pc # "crashed"

\* C30: on every selection path at most max(N, 0) questions are selected,
\* and the session ends with the final report without raising.
C30_AtMostRequested == SelectionBounded /\ NeverRaises

=============================================================================
